---------------------------- MODULE Spec2Model ----------------------------
(***************************************************************************)
(* A model of src/src/index.ts: a didactic CRYSTALS-Kyber public-key       *)
(* encryption written as one TypeScript file.                              *)
(*                                                                         *)
(* Representation.                                                         *)
(*   - A Polynomial ({coefficients: number[]}) is the sequence of its      *)
(*     coefficients; index i of the sequence is degree i-1.                *)
(*   - A PolynomialMatrix is a sequence of rows, each a sequence of        *)
(*     Polynomials.                                                        *)
(*   - JavaScript numbers are doubles.  Every number the program computes  *)
(*     is an integer, except on one path: crystalsKyber_encrypt multiplies *)
(*     the message by q/2, which is 1664.5 for q = 3329.  The values on    *)
(*     that path (msgScaled, v, msg_decrypted) are multiples of 1/2, and   *)
(*     the operators whose name ends in Half take and return them as       *)
(*     their numerators over 2 (3329 stands for 1664.5).  All of these are *)
(*     exact in double precision at the magnitudes involved.               *)
(***************************************************************************)
EXTENDS Integers, Sequences, FiniteSets, TLC

VARIABLES
    \* the parameter set: the globals of src/src/index.ts:424-428
    q, n, k, n1, n2,
    \* the arithmetic harness: operands, the operation applied, its outcome
    argA, argB, opName, outcome, result,
    \* symmetricValueModuloQ applied to one value
    cmValue, cmModulus, cmResult,
    \* the message codec: a text (its character codes), a block size, the
    \* encoder's blocks, and the blocks after padding removal
    text, blockSize, blocks, stripped,
    \* the key pair of crystalsKyber_generateKeys, and its local e
    keys, keyLocals,
    \* one message block, the locals of crystalsKyber_encrypt (r, e1, e2,
    \* msgScaled), the encrypted block and the block decrypted from it
    msg, encLocals, ct, msgDecrypted,
    \* the private key a decryption was given and its msg_polynomial
    decLocals,
    \* the encrypted blocks of a message, the blocks decrypted from them
    \* (polynomialsDecrypted of crystalsKyber_decryptMessage) and its text
    ctMsg, polynomialsDecrypted, textDecrypted,
    \* how far the codec or the encryption has got
    phase

paramVars == <<q, n, k, n1, n2>>
arithVars == <<argA, argB, opName, outcome, result>>
centerVars == <<cmValue, cmModulus, cmResult>>
codecVars == <<text, blockSize, blocks, stripped>>
keyVars == <<keys, keyLocals>>
blockVars == <<msg, encLocals, ct, msgDecrypted, decLocals>>
messageVars == <<ctMsg, polynomialsDecrypted, textDecrypted>>

vars == <<paramVars, arithVars, centerVars, codecVars, keyVars, blockVars,
          messageVars, phase>>

(***************************************************************************)
(* JavaScript arithmetic                                                   *)
(***************************************************************************)

\* The larger of two integers (Math.max).
Max(a, b) == IF a >= b THEN a ELSE b

\* |a| (Math.abs).
Abs(a) == IF a >= 0 THEN a ELSE -a

\* a % m of JavaScript for m > 0: the remainder has the sign of the dividend.
jsRem(a, m) == IF a >= 0 THEN a % m ELSE -((-a) % m)

\* Math.floor(a / b) for integers a and b, b # 0.
floorDiv(a, b) == IF b > 0 THEN a \div b ELSE (-a) \div (-b)

\* The array with the elements f[1], ..., f[Len(f)], each computed once (the
\* arrays of the program are built once, by Array.from, map and push).
Array(f) == f \o <<>>

\* The sum of f[x] over the finite set S of integers.
RECURSIVE SumOver(_, _)
SumOver(f, S) ==
    IF S = {} THEN 0
    ELSE LET x == CHOOSE y \in S : TRUE
         IN  f[x] + SumOver(f, S \ {x})

\* polynomial.coefficients[i-1] || 0: a coefficient beyond the end counts as 0.
coeffOrZero(poly, i) == IF i \in 1..Len(poly) THEN poly[i] ELSE 0

(***************************************************************************)
(* Math operations                                                         *)
(***************************************************************************)

\* A variant that maps into [0, moduloQ) and never centers.
symmetricValueModuloQ_unsigned(asymmetricValueModuloQ, moduloQ) ==
    asymmetricValueModuloQ % moduloQ

symmetricValueModuloQ(asymmetricValueModuloQ, moduloQ) ==
    LET r == jsRem(asymmetricValueModuloQ, moduloQ)
    IN  IF r < 0
        THEN (IF r < -(moduloQ \div 2) THEN r + moduloQ ELSE r)
        ELSE (IF r > (moduloQ \div 2) THEN r - moduloQ ELSE r)

\* symmetricValueModuloQ on a multiple of 1/2 given as its numerator over 2.
symmetricValueModuloQHalf(h, moduloQ) ==
    LET r == jsRem(h, 2 * moduloQ)
    IN  IF r < 0
        THEN (IF r < -(2 * (moduloQ \div 2)) THEN r + 2 * moduloQ ELSE r)
        ELSE (IF r > 2 * (moduloQ \div 2) THEN r - 2 * moduloQ ELSE r)

(***************************************************************************)
(* Polynomial operations                                                   *)
(***************************************************************************)

\* A variant that pops one trailing zero (an if for the while).
popTrailingZeros_once(c) ==
    IF Len(c) > 0 /\ c[Len(c)] = 0
    THEN SubSeq(c, 1, Len(c) - 1)
    ELSE c

\* The inner while loop of dividePolynomials: pop the trailing zeros.
RECURSIVE popTrailingZeros(_)
popTrailingZeros(c) ==
    IF Len(c) > 0 /\ c[Len(c)] = 0
    THEN popTrailingZeros(SubSeq(c, 1, Len(c) - 1))
    ELSE c

\* A variant of the pass that drops the leading coefficient and subtracts
\* nothing from the lower ones.
divideStep_truncating(c, dividingPolynomial, moduloQ) ==
    popTrailingZeros(SubSeq(c, 1, Len(c) - 1))

\* One pass of the outer while loop of dividePolynomials.
divideStep(c, dividingPolynomial, moduloQ) ==
    LET dlen == Len(dividingPolynomial)
        degreeDiff == Len(c) - dlen
        leadingCoeff == floorDiv(c[Len(c)], dividingPolynomial[dlen])
        sub == Array([j \in 1..Len(c) |->
                  IF j > degreeDiff
                  THEN symmetricValueModuloQ(
                         c[j] - symmetricValueModuloQ(
                                  dividingPolynomial[j - degreeDiff] * leadingCoeff,
                                  moduloQ),
                         moduloQ)
                  ELSE c[j]])
    IN  popTrailingZeros(sub)

RECURSIVE dividePolynomials(_, _, _)
dividePolynomials(dividend, dividingPolynomial, moduloQ) ==
    IF Len(dividend) >= Len(dividingPolynomial)
    THEN dividePolynomials(divideStep(dividend, dividingPolynomial, moduloQ),
                           dividingPolynomial, moduloQ)
    ELSE dividend

\* divideStep on multiples of 1/2 (numerators over 2); the divisor is integer.
divideStepHalf(c, dividingPolynomial, moduloQ) ==
    LET dlen == Len(dividingPolynomial)
        degreeDiff == Len(c) - dlen
        leadingCoeff == floorDiv(c[Len(c)], 2 * dividingPolynomial[dlen])
        sub == Array([j \in 1..Len(c) |->
                  IF j > degreeDiff
                  THEN symmetricValueModuloQHalf(
                         c[j] - 2 * symmetricValueModuloQ(
                                      dividingPolynomial[j - degreeDiff] * leadingCoeff,
                                      moduloQ),
                         moduloQ)
                  ELSE c[j]])
    IN  popTrailingZeros(sub)

\* A variant that pops the trailing zeros of what it returns.
RECURSIVE dividePolynomialsHalf_trimmed(_, _, _)
dividePolynomialsHalf_trimmed(dividend, dividingPolynomial, moduloQ) ==
    IF Len(dividend) >= Len(dividingPolynomial)
    THEN dividePolynomialsHalf_trimmed(
            divideStepHalf(dividend, dividingPolynomial, moduloQ),
            dividingPolynomial, moduloQ)
    ELSE popTrailingZeros(dividend)

RECURSIVE dividePolynomialsHalf(_, _, _)
dividePolynomialsHalf(dividend, dividingPolynomial, moduloQ) ==
    IF Len(dividend) >= Len(dividingPolynomial)
    THEN dividePolynomialsHalf(divideStepHalf(dividend, dividingPolynomial, moduloQ),
                               dividingPolynomial, moduloQ)
    ELSE dividend

\* (byte >> bit) & 1 for a character code byte >= 0.
bitOf(byte, bit) == (byte \div (2 ^ bit)) % 2

\* The bits pushed for one byte, bit 7 first.
byteBits(byte) == Array([b \in 1..8 |-> bitOf(byte, 8 - b)])

\* The bits of the text in the order the loops of textToPolynomialBlocks
\* push them: byte by byte, bit 7 first.
textBits(textBytes) ==
    Array([idx \in 1..(8 * Len(textBytes)) |->
        bitOf(textBytes[((idx - 1) \div 8) + 1], 7 - ((idx - 1) % 8))])

\* len zeros.
zeros(len) == Array([i \in 1..len |-> 0])

addPaddingToPolynomialBlocks(polynomial, blockSz) ==
    LET alreadyFull == Len(polynomial) = blockSz
        blocks1 == IF alreadyFull THEN <<polynomial>> ELSE <<>>
        withByte == (IF alreadyFull THEN <<>> ELSE polynomial) \o byteBits(128)
        nowFull == Len(withByte) = blockSz
        blocks2 == IF nowFull THEN Append(blocks1, withByte) ELSE blocks1
        current == IF nowFull THEN <<>> ELSE withByte
        filled == IF Len(current) < blockSz
                  THEN current \o zeros(blockSz - Len(current))
                  ELSE current
    IN  Append(blocks2, filled)

\* A variant that pops the trailing zeros and leaves the marker bit.
removePaddingFromPolynomialBlocks_keepMarker(polynomial) ==
    popTrailingZeros(polynomial)

RECURSIVE removePaddingFromPolynomialBlocks(_)
removePaddingFromPolynomialBlocks(polynomial) ==
    IF Len(polynomial) = 0 THEN polynomial
    ELSE LET last == polynomial[Len(polynomial)]
             rest == SubSeq(polynomial, 1, Len(polynomial) - 1)
         IN  IF last = 0 THEN removePaddingFromPolynomialBlocks(rest)
             ELSE IF last = 1 THEN rest
             ELSE polynomial

\* blocks and currentBlock of textToPolynomialBlocks after the first i bits.
RECURSIVE packBits(_, _, _)
packBits(bits, i, blockSz) ==
    IF i = 0 THEN [blocks |-> <<>>, currentBlock |-> <<>>]
    ELSE LET prev == packBits(bits, i - 1, blockSz)
         IN  IF Len(prev.currentBlock) = blockSz
             THEN [blocks |-> Append(prev.blocks, prev.currentBlock),
                   currentBlock |-> <<bits[i]>>]
             ELSE [blocks |-> prev.blocks,
                   currentBlock |-> Append(prev.currentBlock, bits[i])]

textToPolynomialBlocks(textBytes, blockSz) ==
    LET bits == textBits(textBytes)
        packed == packBits(bits, Len(bits), blockSz)
    IN  packed.blocks \o addPaddingToPolynomialBlocks(packed.currentBlock, blockSz)

\* The bytes one block contributes: one per complete group of 8
\* coefficients, (currentByte << 1) | bit over coefficients that are 0 or 1.
blockBytes(block) ==
    Array([b \in 1..(Len(block) \div 8) |->
        SumOver([j \in 1..8 |-> block[8 * (b - 1) + j] * (2 ^ (8 - j))], 1..8)])

\* The text as its character codes (String.fromCharCode on every byte).
RECURSIVE polynomialBlocksToText(_, _)
polynomialBlocksToText(blks, blockSz) ==
    IF Len(blks) = 0 THEN <<>>
    ELSE polynomialBlocksToText(SubSeq(blks, 1, Len(blks) - 1), blockSz)
            \o blockBytes(blks[Len(blks)])

(***************************************************************************)
(* Matrix operations                                                       *)
(***************************************************************************)

\* A variant that compares the row counts only.
dimensionsDoNotMatch_rowsOnly(A, B) ==
    Len(A) # Len(B)

\* The thrown Error of addMatrices and subtractMatrices: the row counts or
\* the column counts (of the first rows) differ.
dimensionsDoNotMatch(A, B) ==
    Len(A) # Len(B) \/ Len(A[1]) # Len(B[1])

\* The callback of addMatrices for one entry.
addPolynomials(polyA, polyB, moduloQ, modulusPolynomial) ==
    LET maxLength == Max(Len(polyA), Len(polyB))
        coefficients == Array([c \in 1..maxLength |->
            symmetricValueModuloQ(coeffOrZero(polyA, c) + coeffOrZero(polyB, c),
                                  moduloQ)])
    IN  dividePolynomials(coefficients, modulusPolynomial, moduloQ)

addMatrices(A, B, moduloQ, modulusPolynomial) ==
    Array([i \in 1..Len(A) |-> Array([j \in 1..Len(A[i]) |->
        addPolynomials(A[i][j], B[i][j], moduloQ, modulusPolynomial)])])

\* A variant with the operands of the subtraction exchanged.
subtractPolynomials_swapped(polyA, polyB, moduloQ, modulusPolynomial) ==
    LET maxLength == Max(Len(polyA), Len(polyB))
        coefficients == Array([c \in 1..maxLength |->
            symmetricValueModuloQ(coeffOrZero(polyB, c) - coeffOrZero(polyA, c),
                                  moduloQ)])
    IN  dividePolynomials(coefficients, modulusPolynomial, moduloQ)

\* The callback of subtractMatrices for one entry.
subtractPolynomials(polyA, polyB, moduloQ, modulusPolynomial) ==
    LET maxLength == Max(Len(polyA), Len(polyB))
        coefficients == Array([c \in 1..maxLength |->
            symmetricValueModuloQ(coeffOrZero(polyA, c) - coeffOrZero(polyB, c),
                                  moduloQ)])
    IN  dividePolynomials(coefficients, modulusPolynomial, moduloQ)

subtractMatrices(A, B, moduloQ, modulusPolynomial) ==
    Array([i \in 1..Len(A) |-> Array([j \in 1..Len(A[i]) |->
        subtractPolynomials(A[i][j], B[i][j], moduloQ, modulusPolynomial)])])

\* The thrown Error of multiplyMatrices: columns of A against rows of B.
innerDimensionsDoNotMatch(A, B) ==
    Len(A[1]) # Len(B)

\* productCoefficients of multiplyMatrices: the schoolbook convolution, of
\* length la + lb - 1 (Array.from with a negative length gives []).
productCoefficients(polyA, polyB) ==
    Array([idx \in 1..Max(0, Len(polyA) + Len(polyB) - 1) |->
        LET ias == {ia \in 1..Len(polyA) : (idx + 1 - ia) \in 1..Len(polyB)}
        IN  SumOver([ia \in ias |-> polyA[ia] * polyB[idx + 1 - ia]], ias)])

\* The sum that one pass of the loop over k leaves in result[i][j].
summedCoefficients(current, product, moduloQ) ==
    Array([c \in 1..Max(Len(current), Len(product)) |->
        symmetricValueModuloQ(coeffOrZero(current, c) + coeffOrZero(product, c),
                              moduloQ)])

\* result[i][j] after the passes kk = 1..upTo of the loop over k.
RECURSIVE accumulateEntry(_, _, _, _, _, _)
accumulateEntry(A, B, i, j, upTo, moduloQ) ==
    IF upTo = 0 THEN <<>>
    ELSE summedCoefficients(accumulateEntry(A, B, i, j, upTo - 1, moduloQ),
                            productCoefficients(A[i][upTo], B[upTo][j]),
                            moduloQ)

multiplyMatrices(A, B, moduloQ, modulusPolynomial) ==
    Array([i \in 1..Len(A) |-> Array([j \in 1..Len(B[1]) |->
        dividePolynomials(accumulateEntry(A, B, i, j, Len(B), moduloQ),
                          modulusPolynomial, moduloQ)])])

transposeMatrix(matrix) ==
    Array([j \in 1..Len(matrix[1]) |->
        Array([i \in 1..Len(matrix) |-> matrix[i][j]])])

\* x^n + 1: coefficient 1 at degree 0 and at degree n.
modulusPolynomialOf(deg) ==
    Array([i \in 1..(deg + 1) |-> IF i = 1 \/ i = deg + 1 THEN 1 ELSE 0])

modulusPolynomial == modulusPolynomialOf(n)

\* Math.floor(Math.random() * moduloQ) for the idx-th coefficient drawn:
\* some value of 0..moduloQ-1, here the idx-th term of the stream that the
\* seed names.
draw(seed, idx, moduloQ) == (seed.a + seed.b * idx) % moduloQ

\* generateRandomMatrix with the stream of Math.random given by the seed;
\* coefficients are drawn row by row, entry by entry, degree 0 first.
generateRandomMatrix(rows, cols, deg, moduloQ, seed) ==
    Array([i \in 1..rows |-> Array([j \in 1..cols |-> Array([c \in 1..deg |->
        symmetricValueModuloQ(
            draw(seed, (((i - 1) * cols + (j - 1)) * deg) + c, moduloQ),
            moduloQ)])])])

\* A matrix of integers as a matrix of multiples of 1/2 (numerators over 2).
toHalf(M) ==
    Array([i \in 1..Len(M) |-> Array([j \in 1..Len(M[i]) |->
        Array([c \in 1..Len(M[i][j]) |-> 2 * M[i][j][c]])])])

\* addMatrices on matrices of multiples of 1/2.
addMatricesHalf(A, B, moduloQ, modPoly) ==
    Array([i \in 1..Len(A) |-> Array([j \in 1..Len(A[i]) |->
        LET polyA == A[i][j]
            polyB == B[i][j]
            maxLength == Max(Len(polyA), Len(polyB))
            coefficients == Array([c \in 1..maxLength |->
                symmetricValueModuloQHalf(
                    coeffOrZero(polyA, c) + coeffOrZero(polyB, c), moduloQ)])
        IN  dividePolynomialsHalf(coefficients, modPoly, moduloQ)])])

\* subtractMatrices on matrices of multiples of 1/2.
subtractMatricesHalf(A, B, moduloQ, modPoly) ==
    Array([i \in 1..Len(A) |-> Array([j \in 1..Len(A[i]) |->
        LET polyA == A[i][j]
            polyB == B[i][j]
            maxLength == Max(Len(polyA), Len(polyB))
            coefficients == Array([c \in 1..maxLength |->
                symmetricValueModuloQHalf(
                    coeffOrZero(polyA, c) - coeffOrZero(polyB, c), moduloQ)])
        IN  dividePolynomialsHalf(coefficients, modPoly, moduloQ)])])

\* A variant with >= for >.
reduceToBinaryHalf_inclusive(valueH, minValueH, maxValueH) ==
    IF Abs(valueH) >= 2 * (maxValueH \div 4) THEN 1 ELSE 0

\* reduceToBinary on multiples of 1/2 (numerators over 2):
\* Math.abs(value) > Math.floor(maxValue / 2).
reduceToBinaryHalf(valueH, minValueH, maxValueH) ==
    IF Abs(valueH) > 2 * (maxValueH \div 4) THEN 1 ELSE 0

(***************************************************************************)
(* Cryptographic functions                                                 *)
(***************************************************************************)

\* seeds.s, seeds.e and seeds.A name the streams the three samplings draw.
crystalsKyber_generateKeys(seeds) ==
    LET s == generateRandomMatrix(k, 1, n, (n1 * 2) + 1, seeds.s)
        e == generateRandomMatrix(k, 1, n, (n2 * 2) + 1, seeds.e)
        A == generateRandomMatrix(k, k, n, q, seeds.A)
        t == addMatrices(multiplyMatrices(A, s, q, modulusPolynomial), e,
                         q, modulusPolynomial)
    IN  [pKey |-> [t |-> t, A |-> A], sKey |-> [s |-> s], e |-> e]

\* A variant that scales by the integer floor(q/2).
scaleMessage_floor(message) ==
    Array([c \in 1..Len(message) |-> 2 * (message[c] * (q \div 2))])

\* msgScaled: every coefficient times q/2, as numerators over 2.
scaleMessage(message) ==
    Array([c \in 1..Len(message) |-> message[c] * q])

\* The locals and the result of crystalsKyber_encrypt; u is integer, v and
\* msgScaled are multiples of 1/2 (numerators over 2).
crystalsKyber_encrypt(message, pKey, seeds) ==
    LET encrypt_r == generateRandomMatrix(k, 1, n, (n1 * 2) + 1, seeds.r)
        e1 == generateRandomMatrix(k, 1, n, (n2 * 2) + 1, seeds.e1)
        e2 == generateRandomMatrix(1, 1, n, (n2 * 2) + 1, seeds.e2)
        msgScaled == scaleMessage(message)
        matrixMsgScaled == <<<<msgScaled>>>>
        u == addMatrices(
                multiplyMatrices(transposeMatrix(pKey.A), encrypt_r,
                                 q, modulusPolynomial),
                e1, q, modulusPolynomial)
        v == addMatricesHalf(
                toHalf(addMatrices(
                    multiplyMatrices(transposeMatrix(pKey.t), encrypt_r,
                                     q, modulusPolynomial),
                    e2, q, modulusPolynomial)),
                matrixMsgScaled, q, modulusPolynomial)
    IN  [u |-> u, v |-> v,
         r |-> encrypt_r, e1 |-> e1, e2 |-> e2, msgScaled |-> msgScaled]

crystalsKyber_decrypt(eb, sKey) ==
    LET msg_decrypted ==
            subtractMatricesHalf(
                eb.v,
                toHalf(multiplyMatrices(transposeMatrix(sKey.s), eb.u,
                                        q, modulusPolynomial)),
                q, modulusPolynomial)
        msg_polynomial == msg_decrypted[1][1]
    IN  Array([c \in 1..Len(msg_polynomial) |->
            reduceToBinaryHalf(msg_polynomial[c], 0, q)])

\* msg_polynomial of crystalsKyber_decrypt (lines 478-479), as numerators
\* over 2.
msg_polynomialOf(eb, sKey) ==
    subtractMatricesHalf(
        eb.v,
        toHalf(multiplyMatrices(transposeMatrix(sKey.s), eb.u,
                                q, modulusPolynomial)),
        q, modulusPolynomial)[1][1]

(***************************************************************************)
(* Values that stand for "not used by this specification"                  *)
(***************************************************************************)

NoParams == q = 0 /\ n = 0 /\ k = 0 /\ n1 = 0 /\ n2 = 0

NoArith == argA = <<>> /\ argB = <<>> /\ outcome = "none" /\ result = <<>>

NoCenter == cmValue = 0 /\ cmModulus = 0 /\ cmResult = 0

NoCodec == text = <<>> /\ blockSize = 0 /\ blocks = <<>> /\ stripped = <<>>

NoKeys == keys = <<>> /\ keyLocals = <<>>

NoBlock ==
    /\ msg = <<>> /\ encLocals = <<>> /\ ct = <<>> /\ msgDecrypted = <<>>
    /\ decLocals = <<>>

NoMessage == ctMsg = <<>> /\ polynomialsDecrypted = <<>> /\ textDecrypted = <<>>

(***************************************************************************)
(* SpecCenter: symmetricValueModuloQ applied to one value                  *)
(***************************************************************************)

\* Values run over -MaxValue..MaxValue, moduli over 2..MaxModulus.
MaxValue == 24
MaxModulus == 9

InitCenter ==
    /\ NoParams /\ NoArith /\ NoCodec /\ NoKeys /\ NoBlock /\ NoMessage
    /\ phase = "none"
    /\ opName = "none"
    /\ cmValue \in (-MaxValue)..MaxValue
    /\ cmModulus \in 2..MaxModulus
    /\ cmResult = 0

CenterModulo ==
    /\ opName = "none"
    /\ opName' = "center"
    /\ cmResult' = symmetricValueModuloQ(cmValue, cmModulus)
    /\ UNCHANGED <<paramVars, argA, argB, outcome, result, cmValue, cmModulus,
                   codecVars, keyVars, blockVars, messageVars, phase>>

NextCenter == CenterModulo

SpecCenter == InitCenter /\ [][NextCenter]_vars

\* C7: for every integer value and every modulus m >= 2, odd or even, the
\* result r of centerModulo is congruent to the value modulo m and lies in
\* the half-open range -m/2 < r <= m/2.
C7_CenteredRangeAndCongruence ==
    opName = "center" =>
        /\ (cmResult - cmValue) % cmModulus = 0
        /\ -cmModulus < 2 * cmResult
        /\ 2 * cmResult <= cmModulus

(***************************************************************************)
(* SpecArith: add, subtract, multiply and reduce applied to operands       *)
(***************************************************************************)

\* Matrices have 1..MaxDim rows and columns; the long operand has up to
\* n + ExtraLen coefficients.
MaxDim == 2
ExtraLen == 1

\* The parameter sets of the arithmetic harness (moduli are odd, as every
\* preset's q is).
ArithParams == {[q |-> 3329, n |-> 2], [q |-> 5, n |-> 2]}

\* Centered coefficients: the two ends of the range, and 0 and its
\* neighbours.
CenteredCoefs(m) == {-(m \div 2), -1, 0, 1, m \div 2}

\* Integer coefficients, some of them outside the centered range.
WideCoefs(m) == CenteredCoefs(m) \cup {(m \div 2) + 1, -(m \div 2) - 1}

\* The sequences over S of length 0..len.
SeqsUpTo(S, len) == UNION {[1..l -> S] : l \in 0..len}

\* A rows x cols matrix with onDiag on the diagonal and offDiag elsewhere.
matrixOf(rows, cols, onDiag, offDiag) ==
    [i \in 1..rows |-> [j \in 1..cols |-> IF i = j THEN onDiag ELSE offDiag]]

InitArith ==
    /\ NoCenter /\ NoCodec /\ NoKeys /\ NoBlock /\ NoMessage /\ phase = "none"
    /\ k = 0 /\ n1 = 0 /\ n2 = 0
    /\ opName = "none" /\ outcome = "none" /\ result = <<>>
    /\ \E prm \in ArithParams :
        /\ q = prm.q /\ n = prm.n
        /\ \/ \E long \in SeqsUpTo(WideCoefs(prm.q), prm.n + ExtraLen),
                 short \in SeqsUpTo(CenteredCoefs(prm.q), prm.n),
                 swap \in BOOLEAN :
                /\ argA = <<<<IF swap THEN short ELSE long>>>>
                /\ argB = <<<<IF swap THEN long ELSE short>>>>
           \/ \E ra \in 1..MaxDim, ca \in 1..MaxDim,
                 rb \in 1..MaxDim, cb \in 1..MaxDim,
                 pa \in SeqsUpTo({-1, prm.q \div 2}, prm.n),
                 pb \in SeqsUpTo({-1, prm.q \div 2}, prm.n) :
                /\ argA = matrixOf(ra, ca, pa, pb)
                /\ argB = matrixOf(rb, cb, pb, pa)

\* A[i].map(...) reads B[i][j].coefficients: a TypeError when B has no such
\* entry (only reachable when the shape check lets a mismatch through).
entrywiseReadsMissing(A, B) ==
    \E i \in 1..Len(A) : \E j \in 1..Len(A[i]) :
        i > Len(B) \/ j > Len(B[i])

\* multiplyMatrices reads B[0].length (line 348) and, for every i < A.length,
\* j < B[0].length and kk < B.length, A[i][kk].coefficients and
\* B[kk][j].coefficients (lines 353-355): a TypeError when B has no row or
\* one of the entries read is missing.
productReadsMissing(A, B) ==
    \/ Len(B) = 0
    \/ \E i \in 1..Len(A) : \E j \in 1..Len(B[1]) : \E kk \in 1..Len(B) :
            kk > Len(A[i]) \/ j > Len(B[kk])

Returned(operation, value) ==
    /\ opName' = operation
    /\ outcome' = "returned"
    /\ result' = value

Thrown(operation, error) ==
    /\ opName' = operation
    /\ outcome' = error
    /\ result' = <<>>

UnchangedByArith == UNCHANGED <<paramVars, argA, argB, centerVars, codecVars,
                                keyVars, blockVars, messageVars, phase>>

AddMatrices ==
    /\ opName = "none"
    /\ IF dimensionsDoNotMatch(argA, argB)
       THEN Thrown("add", "Error")
       ELSE IF entrywiseReadsMissing(argA, argB)
       THEN Thrown("add", "TypeError")
       ELSE Returned("add", addMatrices(argA, argB, q, modulusPolynomial))
    /\ UnchangedByArith

SubtractMatrices ==
    /\ opName = "none"
    /\ IF dimensionsDoNotMatch(argA, argB)
       THEN Thrown("subtract", "Error")
       ELSE IF entrywiseReadsMissing(argA, argB)
       THEN Thrown("subtract", "TypeError")
       ELSE Returned("subtract",
                     subtractMatrices(argA, argB, q, modulusPolynomial))
    /\ UnchangedByArith

MultiplyMatrices ==
    /\ opName = "none"
    /\ IF innerDimensionsDoNotMatch(argA, argB)
       THEN Thrown("multiply", "Error")
       ELSE IF productReadsMissing(argA, argB)
       THEN Thrown("multiply", "TypeError")
       ELSE Returned("multiply",
                     multiplyMatrices(argA, argB, q, modulusPolynomial))
    /\ UnchangedByArith

\* subtract(add(A, B), B): the additive round trip.
AddThenSubtract ==
    /\ opName = "none"
    /\ ~dimensionsDoNotMatch(argA, argB)
    /\ Returned("addThenSubtract",
                subtractMatrices(addMatrices(argA, argB, q, modulusPolynomial),
                                 argB, q, modulusPolynomial))
    /\ UnchangedByArith

\* dividePolynomials applied to the first entry of A.
ReducePolynomial ==
    /\ opName = "none"
    /\ Returned("reduce",
                <<<<dividePolynomials(argA[1][1], modulusPolynomial, q)>>>>)
    /\ UnchangedByArith

NextArith ==
    \/ AddMatrices
    \/ SubtractMatrices
    \/ MultiplyMatrices
    \/ AddThenSubtract
    \/ ReducePolynomial

SpecArith == InitArith /\ [][NextArith]_vars

\* Every entry of the matrix M satisfies P.
AllEntries(M, P(_)) ==
    \A i \in 1..Len(M) : \A j \in 1..Len(M[i]) : P(M[i][j])

\* A coefficient sequence that is empty or ends in a non-zero coefficient.
Trimmed(poly) == Len(poly) = 0 \/ poly[Len(poly)] # 0

\* At most n coefficients, each in [-floor(q/2), floor(q/2)].
InRing(poly) ==
    /\ Len(poly) <= n
    /\ \A i \in 1..Len(poly) : poly[i] \in (-(q \div 2))..(q \div 2)

\* The same polynomial: equal coefficients at every degree, absent ones 0.
SamePolynomial(a, b) ==
    \A i \in 1..Max(Len(a), Len(b)) : coeffOrZero(a, i) = coeffOrZero(b, i)

MatrixOps == {"add", "subtract", "multiply"}

\* C4: every entry of the result of add, subtract and multiply has at most
\* n coefficients, each an integer in [-floor(q/2), floor(q/2)].
C4_ResultEntriesInRing ==
    (opName \in MatrixOps /\ outcome = "returned") =>
        AllEntries(result, InRing)

\* C4 witness: a product whose unreduced entry had 2n-1 coefficients, and a
\* sum of operands with coefficients outside the centered range.
C4_Witness ==
    /\ opName = "multiply" /\ outcome = "returned"
    /\ Len(argA) = 2 /\ Len(argB[1]) = 2
    /\ Len(accumulateEntry(argA, argB, 1, 1, Len(argB), q)) = 2 * n - 1
    /\ result[1][1] # <<>>

\* C5 (as claimed): every ring element returned by reduce, and every entry
\* of the result of add, subtract and multiply, is trimmed.
C5_AlwaysTrimmed ==
    (opName \in (MatrixOps \cup {"reduce"}) /\ outcome = "returned") =>
        AllEntries(result, Trimmed)

\* The coefficient sequence an operation hands to dividePolynomials for
\* entry (i, j).
Unreduced(i, j) ==
    CASE opName = "reduce" -> argA[1][1]
      [] opName \in {"add", "subtract"} ->
            [c \in 1..Max(Len(argA[i][j]), Len(argB[i][j])) |-> 0]
      [] opName = "multiply" -> accumulateEntry(argA, argB, i, j, Len(argB), q)

\* C5 (amended): reduce trims only when it divides: a returned entry is
\* trimmed when the sequence handed to reduce had more than n coefficients,
\* and otherwise has exactly that sequence's length (for reduce itself: is
\* that sequence), trailing zeros kept.
C5_TrimmedOnlyWhenDivided ==
    (opName \in (MatrixOps \cup {"reduce"}) /\ outcome = "returned") =>
        \A i \in 1..Len(result) : \A j \in 1..Len(result[i]) :
            IF Len(Unreduced(i, j)) > n
            THEN Trimmed(result[i][j]) /\ Len(result[i][j]) <= n
            ELSE /\ Len(result[i][j]) = Len(Unreduced(i, j))
                 /\ opName = "reduce" => result[i][j] = argA[1][1]

\* C5 witness: a division that left trailing zeros to trim, so that the
\* result is shorter than n.
C5_Witness ==
    /\ opName = "reduce" /\ outcome = "returned"
    /\ Len(argA[1][1]) > n
    /\ Len(result[1][1]) < n
    /\ argA[1][1][Len(argA[1][1])] # 0

\* The operand is a ring element with centered coefficients.
Centered(poly) ==
    /\ Len(poly) <= n
    /\ \A i \in 1..Len(poly) : poly[i] \in (-(q \div 2))..(q \div 2)

\* C6: for ring elements a and b with centered coefficients and degree < n,
\* as 1x1 matrices, subtract(add(a, b), b) is the same polynomial as a.
C6_AdditiveInverse ==
    (/\ opName = "addThenSubtract"
     /\ Len(argA) = 1 /\ Len(argA[1]) = 1
     /\ Centered(argA[1][1]) /\ Centered(argB[1][1])) =>
        SamePolynomial(result[1][1], argA[1][1])

\* C6 witness: the sum wraps around the end of the centered range.
C6_Witness ==
    /\ opName = "addThenSubtract"
    /\ Len(argA) = 1 /\ Len(argA[1]) = 1
    /\ Centered(argA[1][1]) /\ Centered(argB[1][1])
    /\ Len(argA[1][1]) > 0 /\ Len(argB[1][1]) > 0
    /\ argA[1][1][1] + argB[1][1][1] > q \div 2

\* C8: add and subtract on matrices whose row counts or column counts
\* differ, and multiply when the column count of the first differs from the
\* row count of the second, throw the Error and return no matrix.
C8_ShapeErrors ==
    /\ (/\ opName \in {"add", "subtract"}
        /\ (Len(argA) # Len(argB) \/ Len(argA[1]) # Len(argB[1]))) =>
            (outcome = "Error" /\ result = <<>>)
    /\ (opName = "multiply" /\ Len(argA[1]) # Len(argB)) =>
            (outcome = "Error" /\ result = <<>>)

\* C8 witness: equal row counts and different column counts.
C8_Witness ==
    /\ opName = "add" /\ outcome = "Error"
    /\ Len(argA) = Len(argB) /\ Len(argA[1]) < Len(argB[1])

(***************************************************************************)
(* The padding steps of crystalsKyber_decryptMessage                       *)
(***************************************************************************)

\* A variant that never discards the last block.
dropAllZeroLast_never(decryptedPolynomials) == decryptedPolynomials

\* Lines 514-527: discard the last block when all its coefficients are 0.
dropAllZeroLast(decryptedPolynomials) ==
    LET last == decryptedPolynomials[Len(decryptedPolynomials)]
        allZeroes == \A i \in 1..Len(last) : last[i] = 0
    IN  IF allZeroes
        THEN SubSeq(decryptedPolynomials, 1, Len(decryptedPolynomials) - 1)
        ELSE decryptedPolynomials

\* Lines 529-534: remove the padding of the last block only.
removePaddingOfLast(decryptedPolynomials) ==
    Array([i \in 1..Len(decryptedPolynomials) |->
        IF i = Len(decryptedPolynomials)
        THEN removePaddingFromPolynomialBlocks(decryptedPolynomials[i])
        ELSE decryptedPolynomials[i]])

\* The streams block i of a message draws: those of base, moved on by i.
blockSeeds(base, i) ==
    [r |-> [a |-> base.r.a + i, b |-> base.r.b],
     e1 |-> [a |-> base.e1.a + i, b |-> base.e1.b],
     e2 |-> [a |-> base.e2.a + i, b |-> base.e2.b]]

\* polynomialsToEncrypt and encryptedPolynomialBlocks of
\* crystalsKyber_encryptMessage.
crystalsKyber_encryptMessage(message, pKey, base) ==
    LET polynomialsToEncrypt == textToPolynomialBlocks(message, n)
    IN  [polynomialsToEncrypt |-> polynomialsToEncrypt,
         encryptedPolynomialBlocks |->
            Array([i \in 1..Len(polynomialsToEncrypt) |->
                LET made == crystalsKyber_encrypt(polynomialsToEncrypt[i], pKey,
                                                  blockSeeds(base, i))
                IN  [u |-> made.u, v |-> made.v]])]

\* polynomialsDecrypted (before the padding steps) and msg of
\* crystalsKyber_decryptMessage.
crystalsKyber_decryptMessage(encryptedMsg, sKey) ==
    LET decrypted == Array([i \in 1..Len(encryptedMsg) |->
                        crystalsKyber_decrypt(encryptedMsg[i], sKey)])
        withoutPadding == removePaddingOfLast(dropAllZeroLast(decrypted))
    IN  [polynomialsDecrypted |-> decrypted,
         msg |-> polynomialBlocksToText(withoutPadding, n)]

(***************************************************************************)
(* SpecCodec: the message codec applied to a text                          *)
(***************************************************************************)

\* Texts have up to MaxTextLen characters; block sizes run over
\* 1..MaxBlockSize.
MaxTextLen == 3
MaxBlockSize == 24

\* ASCII codes: NUL (eight zero bits), a code ending in a 1 bit, a letter,
\* and the largest code.
Alphabet == {0, 1, 65, 127}

InitCodec ==
    /\ NoParams /\ NoArith /\ opName = "none" /\ NoCenter
    /\ NoKeys /\ NoBlock /\ NoMessage
    /\ phase = "none"
    /\ text \in SeqsUpTo(Alphabet, MaxTextLen)
    /\ blockSize \in 1..MaxBlockSize
    /\ blocks = <<>> /\ stripped = <<>>

Encode ==
    /\ phase = "none"
    /\ phase' = "encoded"
    /\ blocks' = textToPolynomialBlocks(text, blockSize)
    /\ UNCHANGED <<paramVars, arithVars, centerVars, keyVars, blockVars,
                   messageVars, text, blockSize, stripped>>

\* removePadding applied to the encoder's last block, the prior blocks kept.
StripLastBlock ==
    /\ phase = "encoded"
    /\ phase' = "strippedLast"
    /\ stripped' = removePaddingOfLast(blocks)
    /\ UNCHANGED <<paramVars, arithVars, centerVars, keyVars, blockVars,
                   messageVars, text, blockSize, blocks>>

\* The padding steps of decryptMessage: an all-zero last block is
\* discarded first.
StripAsDecryptMessage ==
    /\ phase = "encoded"
    /\ phase' = "strippedDropped"
    /\ stripped' = removePaddingOfLast(dropAllZeroLast(blocks))
    /\ UNCHANGED <<paramVars, arithVars, centerVars, keyVars, blockVars,
                   messageVars, text, blockSize, blocks>>

NextCodec ==
    \/ Encode
    \/ StripLastBlock
    \/ StripAsDecryptMessage

SpecCodec == InitCodec /\ [][NextCodec]_vars

\* The coefficients of the blocks, one block after the other.
RECURSIVE Flatten(_)
Flatten(blks) ==
    IF Len(blks) = 0 THEN <<>>
    ELSE Flatten(SubSeq(blks, 1, Len(blks) - 1)) \o blks[Len(blks)]

\* C3 (as claimed): removePadding applied to the last block the encoder
\* returned, after the prior blocks unchanged, is the original bit sequence.
C3_StripLastReconstructs ==
    phase = "strippedLast" => Flatten(stripped) = textBits(text)

\* C3 (amended): once an all-zero last block is discarded, removePadding
\* applied to the then-last block, after the prior blocks unchanged, is the
\* original bit sequence, for every text and every block size >= 1.
C3_DropThenStripReconstructs ==
    phase = "strippedDropped" =>
        /\ Flatten(stripped) = textBits(text)
        /\ \A i \in 1..(Len(stripped) - 1) : stripped[i] = blocks[i]

\* C3 witness: the marker byte filled its block exactly, so the encoder
\* added an all-zero block, which was discarded; the text is not empty.
C3_Witness ==
    /\ phase = "strippedDropped"
    /\ Len(text) > 0
    /\ Len(stripped) = Len(blocks) - 1
    /\ Len(blocks) >= 3

\* C10: every block the encoder returns has exactly blockSize coefficients,
\* each 0 or 1, for every text and every block size.
C10_BlocksHaveBlockSize ==
    phase = "encoded" =>
        \A i \in 1..Len(blocks) :
            /\ Len(blocks[i]) = blockSize
            /\ \A j \in 1..Len(blocks[i]) : blocks[i][j] \in {0, 1}

(***************************************************************************)
(* SpecPKE: generate a key pair, encrypt one block, decrypt it             *)
(***************************************************************************)

\* The public matrix A is drawn from the streams 0..MaxASeed.
MaxASeed == 1

\* Parameter sets small enough to enumerate: a modulus so small that the
\* noise crosses q/4, and the modulus of the presets.
PkeParams ==
    {[q |-> 17, n |-> 2, k |-> 2, n1 |-> 2, n2 |-> 2],
     [q |-> 3329, n |-> 3, k |-> 1, n1 |-> 3, n2 |-> 2]}

\* Streams for the small samplings: constant ones (all 0, all +eta, all
\* -eta) and two that step through the range.
NoiseSeeds ==
    {[a |-> 0, b |-> 0], [a |-> 2, b |-> 0], [a |-> 3, b |-> 0],
     [a |-> 0, b |-> 1], [a |-> 1, b |-> 2]}

\* Streams for the uniform sampling of A.
ASeeds == {[a |-> (1000 * x) + 5, b |-> 777] : x \in 0..MaxASeed}

\* The message blocks: n coefficients, each 0 or 1.
MessageBlocks == [1..n -> {0, 1}]

InitPKE ==
    /\ NoArith /\ opName = "none" /\ NoCenter /\ NoCodec /\ NoKeys /\ NoBlock
    /\ NoMessage
    /\ phase = "none"
    /\ \E prm \in PkeParams :
        q = prm.q /\ n = prm.n /\ k = prm.k /\ n1 = prm.n1 /\ n2 = prm.n2

\* The state after crystalsKyber_generateKeys returned made.
KeysGenerated(made) ==
    /\ keys' = [pKey |-> made.pKey, sKey |-> made.sKey]
    /\ keyLocals' = [e |-> made.e]

GenerateKeys ==
    /\ phase = "none"
    /\ \E ss \in NoiseSeeds, se \in NoiseSeeds, sA \in ASeeds :
        KeysGenerated(
            crystalsKyber_generateKeys([s |-> ss, e |-> se, A |-> sA]))
    /\ phase' = "keys"
    /\ UNCHANGED <<paramVars, arithVars, centerVars, codecVars, blockVars,
                   messageVars>>

\* The state after crystalsKyber_encrypt(message, pKey) returned made.
BlockEncrypted(message, made) ==
    /\ msg' = message
    /\ ct' = [u |-> made.u, v |-> made.v]
    /\ encLocals' = [r |-> made.r, e1 |-> made.e1, e2 |-> made.e2,
                     msgScaled |-> made.msgScaled]

Encrypt ==
    /\ phase = "keys"
    /\ \E message \in MessageBlocks,
          sr \in NoiseSeeds, se1 \in NoiseSeeds, se2 \in NoiseSeeds :
        BlockEncrypted(
            message,
            crystalsKyber_encrypt(message, keys.pKey,
                                  [r |-> sr, e1 |-> se1, e2 |-> se2]))
    /\ phase' = "encrypted"
    /\ UNCHANGED <<paramVars, arithVars, centerVars, codecVars, keyVars,
                   messageVars, msgDecrypted, decLocals>>

Decrypt ==
    /\ phase = "encrypted"
    /\ msgDecrypted' = crystalsKyber_decrypt(ct, keys.sKey)
    /\ phase' = "decrypted"
    /\ UNCHANGED <<paramVars, arithVars, centerVars, codecVars, keyVars,
                   messageVars, msg, encLocals, ct, decLocals>>

NextPKE ==
    \/ GenerateKeys
    \/ Encrypt
    \/ Decrypt

SpecPKE == InitPKE /\ [][NextPKE]_vars

\* The product of a and b in Z[x]/(x^deg + 1), over the integers: x^deg
\* is -1.
NegacyclicProduct(a, b, deg) ==
    [i \in 1..deg |->
        SumOver([pr \in (1..deg) \X (1..deg) |->
                    IF (pr[1] + pr[2] - 2) % deg = i - 1
                    THEN (IF pr[1] + pr[2] - 2 >= deg THEN -1 ELSE 1)
                         * a[pr[1]] * b[pr[2]]
                    ELSE 0],
                (1..deg) \X (1..deg))]

\* x^T * y for two k x 1 matrices, coefficient i, over the integers.
DotCoefficient(x, y, i) ==
    SumOver([row \in 1..k |-> NegacyclicProduct(x[row][1], y[row][1], n)[i]],
            1..k)

\* The representative of x modulo m nearest to 0, m odd.
CenteredResidue(x, m) == ((x + (m \div 2)) % m) - (m \div 2)

\* Coefficient i of w = e^T*r + e2 - s^T*e1, centered modulo q.
NoiseCoefficient(i) ==
    CenteredResidue(
        DotCoefficient(keyLocals.e, encLocals.r, i)
            + encLocals.e2[1][1][i]
            - DotCoefficient(keys.sKey.s, encLocals.e1, i),
        q)

\* Every coefficient of w has absolute value at most floor(q/4).
NoiseBounded == \A i \in 1..n : Abs(NoiseCoefficient(i)) <= q \div 4

\* C1: when every coefficient of w = e^T*r + e2 - s^T*e1 has absolute value
\* at most floor(q/4), decrypt(encrypt(m, (t, A)), s) is m, coefficient for
\* coefficient.
C1_BlockRoundTrip ==
    (phase = "decrypted" /\ NoiseBounded) => msgDecrypted = msg

\* C1 witness: a block with a 1 bit was recovered while the noise at that
\* coefficient was exactly floor(q/4) in absolute value.
C1_Witness ==
    /\ phase = "decrypted" /\ NoiseBounded
    /\ msgDecrypted = msg
    /\ \E i \in 1..n : msg[i] = 1 /\ Abs(NoiseCoefficient(i)) = q \div 4

\* C9: every coefficient of m_scaled is the message coefficient times the
\* integer floor(q/2).
C9_ScaledByFloorHalfQ ==
    phase = "encrypted" =>
        \A i \in 1..Len(msg) :
            encLocals.msgScaled[i] = 2 * (msg[i] * (q \div 2))

(***************************************************************************)
(* SpecMsg: generate a key pair, encrypt a text, decrypt it                *)
(***************************************************************************)

\* Messages have up to MaxMsgLen characters.
MaxMsgLen == 3

\* A block of two bytes under the modulus of the presets, and a block of
\* one byte under a modulus so small that blocks are decrypted wrongly.
MsgParams ==
    {[q |-> 3329, n |-> 16, k |-> 1, n1 |-> 2, n2 |-> 2],
     [q |-> 17, n |-> 8, k |-> 2, n1 |-> 2, n2 |-> 2]}

\* ASCII codes: NUL (eight zero bits) and a letter.
MsgAlphabet == {0, 65}

\* The streams of the first block's samplings.
MsgSeeds ==
    {[r |-> [a |-> 0, b |-> 0], e1 |-> [a |-> 0, b |-> 0],
      e2 |-> [a |-> 0, b |-> 0]],
     [r |-> [a |-> 1, b |-> 2], e1 |-> [a |-> 2, b |-> 1],
      e2 |-> [a |-> 0, b |-> 3]],
     [r |-> [a |-> 3, b |-> 5], e1 |-> [a |-> 2, b |-> 0],
      e2 |-> [a |-> 4, b |-> 1]]}

InitMsg ==
    /\ NoArith /\ opName = "none" /\ NoCenter /\ NoKeys /\ NoBlock /\ NoMessage
    /\ phase = "none"
    /\ \E prm \in MsgParams :
        /\ q = prm.q /\ n = prm.n /\ k = prm.k /\ n1 = prm.n1 /\ n2 = prm.n2
        /\ blockSize = prm.n
    /\ text \in SeqsUpTo(MsgAlphabet, MaxMsgLen)
    /\ blocks = <<>> /\ stripped = <<>>

\* The state after crystalsKyber_encryptMessage returned made.
MessageEncrypted(made) ==
    /\ blocks' = made.polynomialsToEncrypt
    /\ ctMsg' = made.encryptedPolynomialBlocks

EncryptMessage ==
    /\ phase = "keys"
    /\ \E base \in MsgSeeds :
        MessageEncrypted(crystalsKyber_encryptMessage(text, keys.pKey, base))
    /\ phase' = "messageEncrypted"
    /\ UNCHANGED <<paramVars, arithVars, centerVars, keyVars, blockVars,
                   text, blockSize, stripped, polynomialsDecrypted,
                   textDecrypted>>

\* The state after crystalsKyber_decryptMessage returned made.msg.
MessageDecrypted(made) ==
    /\ polynomialsDecrypted' = made.polynomialsDecrypted
    /\ textDecrypted' = made.msg

DecryptMessage ==
    /\ phase = "messageEncrypted"
    /\ MessageDecrypted(crystalsKyber_decryptMessage(ctMsg, keys.sKey))
    /\ phase' = "messageDecrypted"
    /\ UNCHANGED <<paramVars, arithVars, centerVars, codecVars, keyVars,
                   blockVars, ctMsg>>

NextMsg ==
    \/ GenerateKeys
    \/ EncryptMessage
    \/ DecryptMessage

SpecMsg == InitMsg /\ [][NextMsg]_vars

\* Every single-block decryption returned the block that was encrypted.
BlocksRecovered == polynomialsDecrypted = blocks

\* C2: whenever every single-block decryption returns the block that was
\* encrypted, decryptMessage(encryptMessage(T, pk), sk) is exactly T.
C2_MessageRoundTrip ==
    (phase = "messageDecrypted" /\ BlocksRecovered) => textDecrypted = text

\* C2 witness: a text that is not empty and is 8 bits short of a multiple
\* of the block size: the encoder's last block is all zero and is dropped.
C2_Witness ==
    /\ phase = "messageDecrypted" /\ BlocksRecovered
    /\ \E i \in 1..Len(text) : text[i] = 65
    /\ (8 * Len(text)) % n = n - 8
    /\ n > 8
    /\ \A i \in 1..n : polynomialsDecrypted[Len(polynomialsDecrypted)][i] = 0
    /\ textDecrypted = text

(***************************************************************************)
(* SpecReduce: dividePolynomials by x^n + 1, one pass of its outer loop    *)
(* at a time                                                               *)
(***************************************************************************)

\* The parameter sets of the reductions (moduli are odd, as every preset's
\* q is).
ReduceParams == {[q |-> 3329, n |-> 3], [q |-> 5, n |-> 2], [q |-> 7, n |-> 1]}

\* The coefficients of the dividends: every centered value and its two
\* neighbours outside the range for a small modulus, the ends of the range
\* and 0 for a large one.
DividendCoefs(m) ==
    IF m <= 7 THEN (-(m \div 2) - 1)..((m \div 2) + 1)
    ELSE {-(m \div 2), 0, m \div 2}

\* The call dividePolynomials(dividend, modulusPolynomial, q) has copied the
\* dividend (line 114): argA holds the dividend, result the working copy.
InitReduce ==
    /\ NoCenter /\ NoCodec /\ NoKeys /\ NoBlock /\ NoMessage /\ phase = "none"
    /\ k = 0 /\ n1 = 0 /\ n2 = 0
    /\ opName = "reduce" /\ outcome = "running" /\ argB = <<>>
    /\ \E prm \in ReduceParams :
        /\ q = prm.q /\ n = prm.n
        /\ \E dividend \in SeqsUpTo(DividendCoefs(prm.q), (2 * prm.n) - 1) :
            /\ argA = <<<<dividend>>>>
            /\ result = <<<<dividend>>>>

\* One pass of the outer while loop (lines 118-130).
DividePass ==
    /\ opName = "reduce" /\ outcome = "running"
    /\ Len(result[1][1]) >= Len(modulusPolynomial)
    /\ result' = <<<<divideStep(result[1][1], modulusPolynomial, q)>>>>
    /\ UNCHANGED <<opName, outcome>>
    /\ UnchangedByArith

\* The loop condition fails: return the coefficients that are left.
DivideReturn ==
    /\ opName = "reduce" /\ outcome = "running"
    /\ Len(result[1][1]) < Len(modulusPolynomial)
    /\ Returned("reduce", result)
    /\ UnchangedByArith

NextReduce ==
    \/ DividePass
    \/ DivideReturn

\* The loop is sequential code: it takes its next step whenever it has one.
SpecReduce == InitReduce /\ [][NextReduce]_vars /\ WF_vars(NextReduce)

\* The dividend has integer coefficients in [-floor(q/2), floor(q/2)].
CenteredDividend ==
    \A i \in 1..Len(argA[1][1]) :
        argA[1][1][i] \in (-(q \div 2))..(q \div 2)

\* r has degree < n and r[i] is dividend[i] - dividend[i+n] centered modulo
\* q, absent coefficients counting as 0.
ReducedAsSpecified ==
    /\ Len(result[1][1]) <= n
    /\ \A i \in 1..n :
        coeffOrZero(result[1][1], i)
            = CenteredResidue(coeffOrZero(argA[1][1], i)
                                - coeffOrZero(argA[1][1], i + n), q)

\* C11: for a dividend with centered integer coefficients and at most
\* 2n - 1 coefficients, reduce(dividend, x^n + 1, q) terminates, and what it
\* returns is the polynomial r of degree < n with
\* r[i] = centerModulo(dividend[i] - dividend[i+n], q).
C11_ReduceTerminatesCorrect ==
    /\ CenteredDividend => <>(outcome = "returned")
    /\ [](outcome = "returned" /\ CenteredDividend => ReducedAsSpecified)

\* C11 witness: a centered dividend of 2n - 1 > n coefficients has been
\* reduced, and one of the differences dividend[i] - dividend[i+n] wrapped
\* around the modulus.
C11_Witness ==
    /\ opName = "reduce" /\ outcome = "returned"
    /\ CenteredDividend
    /\ Len(argA[1][1]) = (2 * n) - 1 /\ n > 1
    /\ \E i \in 1..(n - 1) :
        Abs(argA[1][1][i] - argA[1][1][i + n]) > q \div 2
    /\ ReducedAsSpecified

(***************************************************************************)
(* SpecAnyKey: a block encrypted under one key pair, decrypted with any    *)
(* private key of the parameter set                                        *)
(***************************************************************************)

\* The state after crystalsKyber_decrypt(ct, sKey) returned decrypted.
BlockDecrypted(sKey, msg_polynomial, decrypted) ==
    /\ decLocals' = [sKey |-> sKey, msg_polynomial |-> msg_polynomial]
    /\ msgDecrypted' = decrypted

\* crystalsKyber_decrypt with a private key sampled as generateKeys samples
\* s: the key of the pair that encrypted, or another one.
DecryptWithKey ==
    /\ phase = "encrypted"
    /\ \E ss \in NoiseSeeds :
        LET sKey == [s |-> generateRandomMatrix(k, 1, n, (n1 * 2) + 1, ss)]
        IN  BlockDecrypted(sKey, msg_polynomialOf(ct, sKey),
                           crystalsKyber_decrypt(ct, sKey))
    /\ phase' = "decryptedWithKey"
    /\ UNCHANGED <<paramVars, arithVars, centerVars, codecVars, keyVars,
                   messageVars, msg, encLocals, ct>>

NextAnyKey ==
    \/ GenerateKeys
    \/ Encrypt
    \/ DecryptWithKey

SpecAnyKey == InitPKE /\ [][NextAnyKey]_vars

\* C12: single-block decrypt of a ciphertext that single-block encrypt made
\* from a block of n coefficients returns, for every private key of the
\* parameter set, a block of exactly n coefficients, each 0 or 1.
C12_DecryptedBlockHasNCoefficients ==
    phase = "decryptedWithKey" =>
        /\ Len(msgDecrypted) = n
        /\ \A i \in 1..n : msgDecrypted[i] \in {0, 1}

\* C12 witness: a decryption with a private key other than the one of the
\* pair, where the coefficient of the highest degree of v - s^T*u is 0
\* and a lower one is not.
C12_Witness ==
    /\ phase = "decryptedWithKey"
    /\ decLocals.sKey # keys.sKey
    /\ decLocals.msg_polynomial[n] = 0
    /\ \E i \in 1..(n - 1) : msgDecrypted[i] = 1
    /\ Len(msgDecrypted) = n

=============================================================================
